---- MODULE Spec2Model ----
(***************************************************************************)
(* Model of libstbi/src/stbi.cpp, the native decode facade of stbi-sharp:  *)
(* format sniffing between QOI and the delegate codec (stb_image), the     *)
(* vertical flip, the LDR -> float promotion, buffer ownership, and the    *)
(* two process-wide flags g_should_flip_vertically and g_used_qoi.         *)
(*                                                                         *)
(* A byte buffer is a record: its length, whether its first four bytes are *)
(* "qoif", the header fields that follow, and what the vendored pixel      *)
(* decoders (qoi.h, stb_image.h, not part of stbi.cpp) make of it.         *)
(* A u8 sample is an integer 0..255.  A float sample is a record [f, raw]: *)
(* f names the arithmetic that produced it from the 8-bit value raw.       *)
(***************************************************************************)
EXTENDS Integers, Sequences, FiniteSets, TLC

\* ------------------------------------------------------------------ bounds
\* Widest and tallest image whose pixels are decoded, and the heap's capacity.
MaxWidth == 2
MaxHeight == 2
MaxBlocks == 3

\* ------------------------------------------------- constants of qoi.h
QOI_HEADER_SIZE == 14
QOI_PADDING_SIZE == 8
QOI_PIXELS_MAX == 400000000
QOI_LINEAR == 1

\* ------------------------------------------------------- sample markers
NULL == 0
Untouched(T) == IF T = "u8" THEN -1 ELSE [f |-> "untouched", raw |-> 0]
Uninit(T) == IF T = "u8" THEN -2 ELSE [f |-> "uninit", raw |-> 0]
OutOfBounds(T) == IF T = "u8" THEN -3 ELSE [f |-> "oob", raw |-> 0]

At(T, buf, i) == IF i \in DOMAIN buf THEN buf[i] ELSE OutOfBounds(T)
Fresh(T, n) == [i \in 1..n |-> Uninit(T)]

\* An int64_t length is a record [hi, lo], the value hi * 2^31 + lo with
\* 0 <= lo < 2^31 (TLC's integers are 32 bits wide).
Int64(hi, lo) == [hi |-> hi, lo |-> lo]
Small(n) == Int64(0, n)
AtLeast(len, n) == len.hi > 0 \/ len.lo >= n

\* (int)len : the conversion of the 64-bit length to a 32-bit int keeps the
\* low 32 bits, bit 31 being the sign.
ToInt32(len) == IF len.hi % 2 = 1 THEN len.lo - 2147483647 - 1 ELSE len.lo

\* ------------------------------------------------------------ the inputs
Buf(len, magic, w, h, c, cs, known, hdr, dec) ==
    [len |-> len, magic |-> magic, width |-> w, height |-> h, channels |-> c,
     colorspace |-> cs, known |-> known, hdr |-> hdr, dec |-> dec]

QoiFile(w, h, c, cs, dec) == Buf(Small(64), TRUE, w, h, c, cs, FALSE, FALSE, dec)
QoiSized(len) == Buf(len, TRUE, MaxWidth, MaxHeight, 4, 0, FALSE, FALSE, TRUE)
StbFile(w, h, n, hdr, dec) == Buf(Small(64), FALSE, w, h, n, 0, TRUE, hdr, dec)
Junk(len) == Buf(len, FALSE, 0, 0, 0, 0, FALSE, FALSE, FALSE)

\* The buffers of the call sequences: one pixel wide, MaxHeight rows (every
\* width is covered by the single-call specification).
Inputs ==
    { QoiFile(1, MaxHeight, 4, 0, TRUE),
      QoiFile(1, MaxHeight, 4, 0, FALSE),
      QoiSized(Small(4)),
      StbFile(1, MaxHeight, 3, FALSE, TRUE),
      StbFile(1, MaxHeight, 3, TRUE, TRUE),
      Junk(Small(3)) }

\* The buffers of the single-call specification: every header, every length.
QoiHeaders ==
    { QoiFile(w, h, c, cs, dec) :
        w \in 0..MaxWidth, h \in 0..MaxHeight, c \in 2..5, cs \in 0..2,
        dec \in BOOLEAN }
    \cup { QoiFile(QOI_PIXELS_MAX, 1, 4, 0, TRUE),
           QoiFile(1, QOI_PIXELS_MAX, 4, 0, TRUE),
           QoiFile(QOI_PIXELS_MAX - 1, 1, 3, 1, FALSE) }
QoiLengths ==
    { QoiSized(len) :
        len \in { Small(4), Small(13), Small(14),
                  Small(QOI_HEADER_SIZE + QOI_PADDING_SIZE - 1),
                  Small(QOI_HEADER_SIZE + QOI_PADDING_SIZE),
                  Small(2147483647), Int64(1, 0), Int64(1, 64), Int64(2, 0),
                  Int64(2, 64) } }
StbFiles ==
    { StbFile(w, h, n, hdr, dec) :
        w \in 1..MaxWidth, h \in 1..MaxHeight, n \in 1..4, hdr \in BOOLEAN,
        dec \in BOOLEAN }
AllInputs == Inputs \cup QoiHeaders \cup QoiLengths \cup StbFiles \cup { Junk(Small(0)), Junk(Small(64)) }

Channels == 0..4
\* The desired channel counts of the call sequences: native, and a count that
\* is neither file's own.
SeqChannels == { 0, 2 }
Types == { "u8", "f32" }
\* What an uninitialised qoi_desc may hold.
Garbage == { 0, 7 }

\* --------------------------------------------------------------- the heap
\* malloc: the lowest free block.  Every caller holds a free block (see Room).
Malloc(heap) ==
    CHOOSE p \in 1..MaxBlocks :
        p \notin heap /\ \A q \in 1..MaxBlocks : q \notin heap => p <= q
\* A call holds at most two blocks of its own at a time.
Room(heap) == Cardinality(heap) + 2 <= MaxBlocks

\* ------------------------------------------------------ stbi.cpp, 26..69
is_qoi(d) == AtLeast(d.len, 4) /\ d.magic

\* Stands for an uninitialised value that is never read.
Indeterminate == CHOOSE g \in Garbage : TRUE

NoDesc(g) == [width |-> g, height |-> g, channels |-> g, colorspace |-> g]

\* qoi_decode_header(data, size, desc): [ok, desc]; desc is left as it was
\* (g, uninitialised in every caller) when the size check fails.
qoi_decode_header(d, size, g) ==
    IF size < QOI_HEADER_SIZE + QOI_PADDING_SIZE
    THEN [ok |-> FALSE, desc |-> NoDesc(g)]
    ELSE LET desc == [width |-> d.width, height |-> d.height,
                      channels |-> d.channels, colorspace |-> d.colorspace]
         IN  [ok |-> ~( desc.width = 0 \/ desc.height = 0
                        \/ desc.channels < 3 \/ desc.channels > 4
                        \/ desc.colorspace > 1
                        \/ ~d.magic
                        \/ desc.height >= QOI_PIXELS_MAX \div desc.width ),
              desc |-> desc]

is_linear_qoi(d) ==
    LET r == qoi_decode_header(d, ToInt32(d.len), Indeterminate)
    IN  IF ~r.ok THEN FALSE ELSE r.desc.colorspace = QOI_LINEAR

\* Bind(e, F) is F(e) with e evaluated once: LET x == e IN F(x), strictly.
Bind(e, F(_)) == CHOOSE y \in { F(x) : x \in {e} } : TRUE

\* ------------------------------------------------------ stbi.cpp, 74..85
\* dst after flip_vertically(dst, src, width, height, n_channels): element
\* target_y * stride_y + x * n_channels + c is src's y * stride_y + ...
flip_vertically(T, dst, src, width, height, n_channels) ==
    LET stride_y == width * n_channels
    IN  [i \in DOMAIN dst |->
            IF i - 1 < height * stride_y
            THEN LET target_y == (i - 1) \div stride_y
                     y == height - target_y - 1
                 IN  At(T, src, y * stride_y + ((i - 1) % stride_y) + 1)
            ELSE dst[i]]

\* memcpy(dst, src, count elements)
memcpy(T, dst, src, count) ==
    [i \in DOMAIN dst |-> IF i <= count THEN At(T, src, i) ELSE dst[i]]

\* ----------------------------------------------------- stbi.cpp, 87..113
\* srgb_to_linear(raw / 255.0f): which branch computes the result.  No 8-bit
\* value lies between 10/255 and 11/255, where 0.04045 is.
srgb_to_linear(raw) ==
    IF raw * 100000 <= 4045 * 255
    THEN [f |-> "srgb/12.92", raw |-> raw]
    ELSE [f |-> "pow((srgb+0.055)/1.055,2.4)", raw |-> raw]

\* src[i] / 255.0f
Div255(raw) == [f |-> "raw/255", raw |-> raw]

srgb_int_to_linear_float(dst, src, width, height, n_channels) ==
    LET n_non_alpha == IF n_channels = 1 \/ n_channels = 3
                       THEN n_channels ELSE n_channels - 1
    IN  [i \in DOMAIN dst |->
            IF i - 1 < width * height * n_channels
            THEN IF (i - 1) % n_channels < n_non_alpha
                 THEN srgb_to_linear(At("u8", src, i))
                 ELSE Div255(At("u8", src, i))
            ELSE dst[i]]

linear_int_to_linear_float(dst, src, width, height, n_channels) ==
    [i \in DOMAIN dst |->
        IF i - 1 < width * height * n_channels
        THEN Div255(At("u8", src, i))
        ELSE dst[i]]

\* ------------------------------------------- the vendored pixel decoders
\* The 8-bit sample a decoder yields at row y, column x, channel c.
Sample(y, x, c) == (6 + 5 * y + 2 * x + c) % 256
CodecPixels(w, h, n) ==
    [i \in 1..(w * h * n) |->
        Sample((i - 1) \div (w * n), ((i - 1) % (w * n)) \div n, (i - 1) % n)]
HdrPixels(w, h, n) ==
    [i \in 1..(w * h * n) |->
        [f |-> "hdr",
         raw |-> Sample((i - 1) \div (w * n), ((i - 1) % (w * n)) \div n, (i - 1) % n)]]

\* The channel count of the delivered pixels.
Effective(native, desired) == IF desired = 0 THEN native ELSE desired

\* qoi_decode(data, size, &desc, channels): NULL on a header it rejects or a
\* stream it cannot decode, else width * height * channels samples.
qoi_decode(d, size, channels, g) ==
    Bind(qoi_decode_header(d, size, g), LAMBDA r :
        IF r.ok /\ d.dec
        THEN [ok |-> TRUE, desc |-> r.desc,
              pixels |-> CodecPixels(r.desc.width, r.desc.height,
                                     Effective(r.desc.channels, channels))]
        ELSE [ok |-> FALSE, desc |-> r.desc, pixels |-> <<>>])

StbiReason(d) == IF d.known THEN "corrupt image" ELSE "unknown image type"

\* stbi_info_from_memory: [ok, x, y, comp]; the out-parameters are written
\* on success only.
stbi_info_from_memory(d) ==
    IF d.known
    THEN [ok |-> TRUE, x |-> d.width, y |-> d.height, comp |-> d.channels]
    ELSE [ok |-> FALSE, x |-> 0, y |-> 0, comp |-> 0]

stbi_is_hdr_from_memory(d) == d.known /\ d.hdr

\* stbi_load_from_memory (T = "u8") and stbi_loadf_from_memory (T = "f32")
stbi_load(T, d, channels) ==
    IF d.known /\ d.dec
    THEN [ok |-> TRUE, x |-> d.width, y |-> d.height, comp |-> d.channels,
          pixels |-> IF T = "u8"
                     THEN CodecPixels(d.width, d.height, Effective(d.channels, channels))
                     ELSE HdrPixels(d.width, d.height, Effective(d.channels, channels))]
    ELSE [ok |-> FALSE, x |-> 0, y |-> 0, comp |-> 0, pixels |-> <<>>]

\* ---------------------------------------------------- stbi.cpp, 115..200
is_hdr_from_memory(d) ==
    IF is_qoi(d) THEN FALSE ELSE stbi_is_hdr_from_memory(d)

\* The process state a decode reads and writes: m.flip is
\* g_should_flip_vertically, m.heap the live blocks, m.reason stb_image's
\* last failure text.  A load returns [ptr, pixels, w, h, n, m].
Loaded(ptr, pixels, w, h, n, m) ==
    [ptr |-> ptr, pixels |-> pixels, w |-> w, h |-> h, n |-> n, m |-> m]

\* FlipOwned without free(pixels): the block flipped from stays live.
FlipOwned_KeepsFirst(T, r, n_desired_channels) ==
    IF r.m.flip
    THEN LET n_returned_channels == Effective(r.n, n_desired_channels)
             dst == Malloc(r.m.heap)
         IN  Loaded(dst,
                    flip_vertically(T, Fresh(T, r.w * r.h * n_returned_channels),
                                    r.pixels, r.w, r.h, n_returned_channels),
                    r.w, r.h, r.n,
                    [r.m EXCEPT !.heap = @ \cup {dst}])
    ELSE r

\* Lines 148..154 and 173..179: flip into a second block, free the first.
FlipOwned(T, r, n_desired_channels) ==
    IF r.m.flip
    THEN LET n_returned_channels == Effective(r.n, n_desired_channels)
             dst == Malloc(r.m.heap)
         IN  Loaded(dst,
                    flip_vertically(T, Fresh(T, r.w * r.h * n_returned_channels),
                                    r.pixels, r.w, r.h, n_returned_channels),
                    r.w, r.h, r.n,
                    [r.m EXCEPT !.heap = (@ \cup {dst}) \ {r.ptr}])
    ELSE r

\* Lines 130..142: the codec's answer, [ok, pixels, w, h, n, reason]
DecodeU8(d, n_desired_channels, m, g) ==
    IF is_qoi(d)
    THEN Bind(qoi_decode(d, ToInt32(d.len), n_desired_channels, g), LAMBDA q :
            [ok |-> q.ok, pixels |-> q.pixels, w |-> q.desc.width,
             h |-> q.desc.height, n |-> q.desc.channels, reason |-> m.reason])
    ELSE Bind(stbi_load("u8", d, n_desired_channels), LAMBDA s :
            [ok |-> s.ok, pixels |-> s.pixels, w |-> s.x, h |-> s.y, n |-> s.comp,
             reason |-> IF s.ok THEN m.reason ELSE StbiReason(d)])

\* load_from_memory<unsigned char>
load_from_memory_u8(d, n_desired_channels, m, g) ==
    Bind(DecodeU8(d, n_desired_channels, m, g), LAMBDA dec :
        IF ~dec.ok
        THEN Loaded(NULL, <<>>, dec.w, dec.h, dec.n, [m EXCEPT !.reason = dec.reason])
        ELSE LET pixels == Malloc(m.heap)
             IN  FlipOwned("u8",
                           Loaded(pixels, dec.pixels, dec.w, dec.h, dec.n,
                                  [m EXCEPT !.heap = @ \cup {pixels}]),
                           n_desired_channels))

\* Promote with the file's channel count where the returned one belongs.
Promote_NativeChannels(d, ldr, n_desired_channels) ==
    LET pixels == Malloc(ldr.m.heap)
        dst == Fresh("f32", ldr.w * ldr.h * Effective(ldr.n, n_desired_channels))
    IN  Loaded(pixels,
               IF is_linear_qoi(d)
               THEN linear_int_to_linear_float(dst, ldr.pixels, ldr.w, ldr.h, ldr.n)
               ELSE srgb_int_to_linear_float(dst, ldr.pixels, ldr.w, ldr.h, ldr.n),
               ldr.w, ldr.h, ldr.n,
               [ldr.m EXCEPT !.heap = (@ \cup {pixels}) \ {ldr.ptr}])

\* Lines 187..196: promote the 8-bit block into a new float block, free the
\* 8-bit one.
Promote(d, ldr, n_desired_channels) ==
    LET n_returned_channels == Effective(ldr.n, n_desired_channels)
        pixels == Malloc(ldr.m.heap)
        dst == Fresh("f32", ldr.w * ldr.h * n_returned_channels)
    IN  Loaded(pixels,
               IF is_linear_qoi(d)
               THEN linear_int_to_linear_float(dst, ldr.pixels, ldr.w, ldr.h,
                                               n_returned_channels)
               ELSE srgb_int_to_linear_float(dst, ldr.pixels, ldr.w, ldr.h,
                                             n_returned_channels),
               ldr.w, ldr.h, ldr.n,
               [ldr.m EXCEPT !.heap = (@ \cup {pixels}) \ {ldr.ptr}])

\* load_from_memory<float>
load_from_memory_f32(d, n_desired_channels, m, g) ==
    IF is_hdr_from_memory(d)
    THEN Bind(stbi_load("f32", d, n_desired_channels), LAMBDA s :
            IF ~s.ok
            THEN Loaded(NULL, <<>>, s.x, s.y, s.comp,
                        [m EXCEPT !.reason = StbiReason(d)])
            ELSE LET pixels == Malloc(m.heap)
                 IN  FlipOwned("f32",
                               Loaded(pixels, s.pixels, s.x, s.y, s.comp,
                                      [m EXCEPT !.heap = @ \cup {pixels}]),
                               n_desired_channels))
    ELSE Bind(load_from_memory_u8(d, n_desired_channels, m, g), LAMBDA ldr :
            IF ldr.ptr = NULL
            THEN ldr
            ELSE Promote(d, ldr, n_desired_channels))

load_from_memory(T, d, n_desired_channels, m, g) ==
    IF T = "u8"
    THEN load_from_memory_u8(d, n_desired_channels, m, g)
    ELSE load_from_memory_f32(d, n_desired_channels, m, g)

\* ---------------------------------------------------- stbi.cpp, 202..230
\* LoadUnflipped without line 214: the flag stays cleared.
LoadUnflipped_NoRestore(T, d, n_desired_channels, m, g) ==
    load_from_memory(T, d, n_desired_channels, [m EXCEPT !.flip = FALSE], g)

\* Lines 211..214: the load, with the flag cleared around it.
LoadUnflipped(T, d, n_desired_channels, m, g) ==
    LET needs_flipping == m.flip
    IN  Bind(load_from_memory(T, d, n_desired_channels, [m EXCEPT !.flip = FALSE], g),
             LAMBDA tmp : [tmp EXCEPT !.m.flip = needs_flipping])

\* Deliver copying before it tests tmp.
Deliver_NoNullCheck(T, tmp, needs_flipping, n_desired_channels, dst) ==
    LET n_channels == IF n_desired_channels # 0 THEN n_desired_channels ELSE tmp.n
    IN  [ok |-> tmp.ptr # NULL,
         dst |-> IF needs_flipping
                 THEN flip_vertically(T, dst, tmp.pixels, tmp.w, tmp.h, n_channels)
                 ELSE memcpy(T, dst, tmp.pixels, tmp.w * tmp.h * n_channels)]

\* Deliver without lines 220..222: the file's channel count is the stride.
Deliver_NativeChannels(T, tmp, needs_flipping, n_desired_channels, dst) ==
    IF tmp.ptr = NULL
    THEN [ok |-> FALSE, dst |-> dst]
    ELSE [ok |-> TRUE,
          dst |-> IF needs_flipping
                  THEN flip_vertically(T, dst, tmp.pixels, tmp.w, tmp.h, tmp.n)
                  ELSE memcpy(T, dst, tmp.pixels, tmp.w * tmp.h * tmp.n)]

\* Lines 216..229: [ok, dst] from the loaded tmp.
Deliver(T, tmp, needs_flipping, n_desired_channels, dst) ==
    IF tmp.ptr = NULL
    THEN [ok |-> FALSE, dst |-> dst]
    ELSE LET n_channels == IF n_desired_channels # 0
                           THEN n_desired_channels ELSE tmp.n
         IN  [ok |-> TRUE,
              dst |-> IF needs_flipping
                      THEN flip_vertically(T, dst, tmp.pixels, tmp.w, tmp.h, n_channels)
                      ELSE memcpy(T, dst, tmp.pixels, tmp.w * tmp.h * n_channels)]

\* load_from_memory_info_buffer<T>: [ok, dst, m]
load_from_memory_info_buffer(T, d, n_desired_channels, dst, m, g) ==
    Bind(LoadUnflipped(T, d, n_desired_channels, m, g), LAMBDA tmp :
        Bind(Deliver(T, tmp, m.flip, n_desired_channels, dst), LAMBDA out :
            [ok |-> out.ok, dst |-> out.dst, m |-> tmp.m]))

\* ---------------------------------------------------- stbi.cpp, 232..252
\* info_from_memory: [ok, w, h, n, used_qoi, reason]; w, h and n are 0, as the
\* caller's variables were, when they are not written.
info_from_memory(d, reason) ==
    IF is_qoi(d)
    THEN Bind(qoi_decode_header(d, ToInt32(d.len), Indeterminate), LAMBDA r :
            IF ~r.ok
            THEN [ok |-> FALSE, w |-> 0, h |-> 0, n |-> 0,
                  used_qoi |-> TRUE, reason |-> reason]
            ELSE [ok |-> TRUE, w |-> r.desc.width, h |-> r.desc.height,
                  n |-> r.desc.channels, used_qoi |-> TRUE, reason |-> reason])
    ELSE Bind(stbi_info_from_memory(d), LAMBDA s :
            [ok |-> s.ok, w |-> s.x, h |-> s.y, n |-> s.comp,
             used_qoi |-> FALSE,
             reason |-> IF s.ok THEN reason ELSE StbiReason(d)])

\* FailureReason()
GenericReason == "unknown"
failure_reason(used_qoi, reason) == IF used_qoi THEN GenericReason ELSE reason

\* ------------------------------------------------------------- the state
VARIABLES
    g_should_flip_vertically,   \* stbi.cpp:71
    g_used_qoi,                 \* stbi.cpp:72
    stbi_failure_reason,        \* stb_image's last failure text
    heap,                       \* the live blocks malloc'ed by the library
    owned,                      \* the blocks the caller holds and has not freed
    call,                       \* the last call: its arguments and its results
    lastSet,                    \* the last SetFlipVerticallyOnLoad: [b, during]
    pc,                         \* where the decoding thread is in lines 211..229
    arg,                        \* its arguments: [T, d, k]
    needs_flipping,             \* its local of line 211
    tmp                         \* its local of line 213

vars == <<g_should_flip_vertically, g_used_qoi, stbi_failure_reason, heap, owned,
          call, lastSet, pc, arg, needs_flipping, tmp>>
threadVars == <<pc, arg, needs_flipping, tmp>>

DstLen == MaxWidth * MaxHeight * 4
DstBefore(T) == [i \in 1..DstLen |-> Untouched(T)]

NoCall ==
    [op |-> "none", T |-> "u8", d |-> Junk(Small(0)), k |-> 0, b |-> FALSE, ok |-> FALSE,
     w |-> 0, h |-> 0, n |-> 0, ptr |-> NULL, pixels |-> <<>>, dst |-> <<>>,
     text |-> ""]
NoMem == [flip |-> FALSE, heap |-> {}, reason |-> ""]
NoTmp == Loaded(NULL, <<>>, 0, 0, 0, NoMem)
NoArg == [T |-> "u8", d |-> Junk(Small(0)), k |-> 0]

Mem == [flip |-> g_should_flip_vertically, heap |-> heap,
        reason |-> stbi_failure_reason]

Init ==
    /\ g_should_flip_vertically = FALSE
    /\ g_used_qoi = FALSE
    /\ stbi_failure_reason = "(null)"
    /\ heap = {}
    /\ owned = {}
    /\ call = NoCall
    /\ lastSet = [b |-> FALSE, during |-> FALSE]
    /\ pc = "idle"
    /\ arg = NoArg
    /\ needs_flipping = FALSE
    /\ tmp = NoTmp

\* ---------------------------------------------------- stbi.cpp, 254..294
InfoFromMemory(d) ==
    /\ pc = "idle"
    /\ \E r \in {info_from_memory(d, stbi_failure_reason)} :
        /\ g_used_qoi' = r.used_qoi
        /\ stbi_failure_reason' = r.reason
        /\ call' = [NoCall EXCEPT !.op = "info", !.d = d, !.ok = r.ok,
                                  !.w = r.w, !.h = r.h, !.n = r.n]
        /\ UNCHANGED <<g_should_flip_vertically, heap, owned, lastSet, threadVars>>

IsHdrFromMemory(d) ==
    /\ pc = "idle"
    /\ call' = [NoCall EXCEPT !.op = "is_hdr", !.d = d, !.ok = is_hdr_from_memory(d)]
    /\ UNCHANGED <<g_should_flip_vertically, g_used_qoi, stbi_failure_reason, heap,
                   owned, lastSet, threadVars>>

\* LoadFromMemory (T = "u8") and LoadFFromMemory (T = "f32")
Load(T, d, k, g) ==
    /\ pc = "idle"
    /\ Room(heap)
    /\ \E r \in {load_from_memory(T, d, k, Mem, g)} :
        /\ g_should_flip_vertically' = r.m.flip
        /\ stbi_failure_reason' = r.m.reason
        /\ heap' = r.m.heap
        /\ owned' = IF r.ptr = NULL THEN owned ELSE owned \cup {r.ptr}
        /\ call' = [NoCall EXCEPT !.op = "decode", !.T = T, !.d = d, !.k = k,
                                  !.ok = (r.ptr # NULL), !.w = r.w, !.h = r.h,
                                  !.n = r.n, !.ptr = r.ptr, !.pixels = r.pixels]
        /\ UNCHANGED <<g_used_qoi, lastSet, threadVars>>

\* qoi_decode leaves desc uninitialised, and lines 133..135 read it, when
\* the buffer is too short for a header.
DescGarbage(d) ==
    IF is_qoi(d) /\ ToInt32(d.len) < QOI_HEADER_SIZE + QOI_PADDING_SIZE
    THEN Garbage ELSE {Indeterminate}

LoadFromMemory(d, k) == \E g \in DescGarbage(d) : Load("u8", d, k, g)
LoadFFromMemory(d, k) == \E g \in DescGarbage(d) : Load("f32", d, k, g)

\* LoadFromMemoryIntoBuffer (T = "u8") and LoadFFromMemoryIntoBuffer (T = "f32")
LoadIntoBuffer(T, d, k, g) ==
    /\ pc = "idle"
    /\ Room(heap)
    /\ \E r \in {load_from_memory_info_buffer(T, d, k, DstBefore(T), Mem, g)} :
        /\ g_should_flip_vertically' = r.m.flip
        /\ stbi_failure_reason' = r.m.reason
        /\ heap' = r.m.heap
        /\ call' = [NoCall EXCEPT !.op = "decode_into", !.T = T, !.d = d, !.k = k,
                                  !.ok = r.ok, !.dst = r.dst]
        /\ UNCHANGED <<g_used_qoi, owned, lastSet, threadVars>>

LoadFromMemoryIntoBuffer(d, k) ==
    \E g \in DescGarbage(d) : LoadIntoBuffer("u8", d, k, g)
LoadFFromMemoryIntoBuffer(d, k) ==
    \E g \in DescGarbage(d) : LoadIntoBuffer("f32", d, k, g)

SetFlipVerticallyOnLoad(should_flip) ==
    /\ g_should_flip_vertically' = should_flip
    /\ lastSet' = [b |-> should_flip, during |-> pc # "idle"]
    /\ call' = [NoCall EXCEPT !.op = "set_flip", !.b = should_flip]
    /\ UNCHANGED <<g_used_qoi, stbi_failure_reason, heap, owned, threadVars>>

\* Free(pixels), of a block a decode returned
Free(pixels) ==
    /\ pc = "idle"
    /\ pixels \in owned
    /\ heap' = heap \ {pixels}
    /\ owned' = owned \ {pixels}
    /\ call' = [NoCall EXCEPT !.op = "free", !.ptr = pixels]
    /\ UNCHANGED <<g_should_flip_vertically, g_used_qoi, stbi_failure_reason,
                   lastSet, threadVars>>

FailureReason ==
    /\ pc = "idle"
    /\ call' = [NoCall EXCEPT !.op = "failure_reason",
                              !.text = failure_reason(g_used_qoi, stbi_failure_reason)]
    /\ UNCHANGED <<g_should_flip_vertically, g_used_qoi, stbi_failure_reason, heap,
                   owned, lastSet, threadVars>>

\* ----------------------------------- one caller at a time, any call sequence
Next ==
    \/ \E d \in Inputs : InfoFromMemory(d)
    \/ \E d \in Inputs : IsHdrFromMemory(d)
    \/ \E d \in Inputs, k \in SeqChannels : LoadFromMemory(d, k)
    \/ \E d \in Inputs, k \in SeqChannels : LoadFFromMemory(d, k)
    \/ \E d \in Inputs, k \in SeqChannels : LoadFromMemoryIntoBuffer(d, k)
    \/ \E d \in Inputs, k \in SeqChannels : LoadFFromMemoryIntoBuffer(d, k)
    \/ \E b \in BOOLEAN : SetFlipVerticallyOnLoad(b)
    \/ \E p \in 1..MaxBlocks : Free(p)
    \/ FailureReason

Spec == Init /\ [][Next]_vars

\* ------------------- one call, on every buffer, with the flag either way
InitOnce ==
    /\ g_should_flip_vertically \in BOOLEAN
    /\ g_used_qoi \in BOOLEAN
    /\ stbi_failure_reason = "(null)"
    /\ heap = {}
    /\ owned = {}
    /\ call = NoCall
    /\ lastSet = [b |-> g_should_flip_vertically, during |-> FALSE]
    /\ pc = "idle"
    /\ arg = NoArg
    /\ needs_flipping = FALSE
    /\ tmp = NoTmp

First == call.op = "none"
NextOnce ==
    \/ First /\ \E d \in AllInputs : InfoFromMemory(d)
    \/ First /\ \E d \in AllInputs : IsHdrFromMemory(d)
    \/ First /\ \E d \in AllInputs, k \in Channels : LoadFromMemory(d, k)
    \/ First /\ \E d \in AllInputs, k \in Channels : LoadFFromMemory(d, k)
    \/ First /\ \E d \in AllInputs, k \in Channels : LoadFromMemoryIntoBuffer(d, k)
    \/ First /\ \E d \in AllInputs, k \in Channels : LoadFFromMemoryIntoBuffer(d, k)

SpecOnce == InitOnce /\ [][NextOnce]_vars

\* ------ two threads: one inside load_from_memory_info_buffer, one setting
\* the flag.  Each access to g_should_flip_vertically is a step.
\* Line 211
Thread_Save(T, d, k) ==
    /\ pc = "idle"
    /\ Room(heap)
    /\ arg' = [T |-> T, d |-> d, k |-> k]
    /\ needs_flipping' = g_should_flip_vertically
    /\ pc' = "saved"
    /\ UNCHANGED <<g_should_flip_vertically, g_used_qoi, stbi_failure_reason, heap,
                   owned, call, lastSet, tmp>>

\* Line 212
Thread_Clear ==
    /\ pc = "saved"
    /\ g_should_flip_vertically' = FALSE
    /\ pc' = "cleared"
    /\ UNCHANGED <<g_used_qoi, stbi_failure_reason, heap, owned, call, lastSet,
                   arg, needs_flipping, tmp>>

\* Line 213: the decode, which reads the flag at line 148 or 173
Thread_Load ==
    /\ pc = "cleared"
    /\ \E g \in DescGarbage(arg.d) :
       \E r \in {load_from_memory(arg.T, arg.d, arg.k, Mem, g)} :
        /\ tmp' = [r EXCEPT !.m = NoMem]
        /\ stbi_failure_reason' = r.m.reason
        /\ heap' = r.m.heap
    /\ pc' = "loaded"
    /\ UNCHANGED <<g_should_flip_vertically, g_used_qoi, owned, call, lastSet, arg,
                   needs_flipping>>

\* Thread_Restore without the store of line 214.
Thread_NoRestore ==
    /\ pc = "loaded"
    /\ pc' = "restored"
    /\ UNCHANGED <<g_should_flip_vertically, g_used_qoi, stbi_failure_reason, heap,
                   owned, call, lastSet, arg, needs_flipping, tmp>>

\* Line 214
Thread_Restore ==
    /\ pc = "loaded"
    /\ g_should_flip_vertically' = needs_flipping
    /\ pc' = "restored"
    /\ UNCHANGED <<g_used_qoi, stbi_failure_reason, heap, owned, call, lastSet,
                   arg, needs_flipping, tmp>>

\* Lines 216..229
Thread_Deliver ==
    /\ pc = "restored"
    /\ \E out \in {Deliver(arg.T, tmp, needs_flipping, arg.k, DstBefore(arg.T))} :
        call' = [NoCall EXCEPT !.op = "decode_into", !.T = arg.T, !.d = arg.d,
                               !.k = arg.k, !.ok = out.ok, !.dst = out.dst]
    /\ pc' = "idle"
    /\ tmp' = NoTmp
    /\ UNCHANGED <<g_should_flip_vertically, g_used_qoi, stbi_failure_reason, heap,
                   owned, lastSet, arg, needs_flipping>>

NextConc ==
    \/ \E T \in Types, d \in Inputs, k \in SeqChannels : Thread_Save(T, d, k)
    \/ Thread_Clear
    \/ Thread_Load
    \/ Thread_Restore
    \/ Thread_Deliver
    \/ \E b \in BOOLEAN : SetFlipVerticallyOnLoad(b)

SpecConc == Init /\ [][NextConc]_vars

\* ======================================================== the claims
Attempts == { "info", "decode", "decode_into" }
Decodes == { "decode", "decode_into" }

\* The pixels a successful decode delivered: the returned block, or the part
\* of the destination a width * height * effective-channels image takes.
Delivered(c) ==
    IF c.op = "decode"
    THEN c.pixels
    ELSE SubSeq(c.dst, 1, c.d.width * c.d.height * Effective(c.d.channels, c.k))

\* What load_from_memory<T> returns for the bytes with the flag at flip.
Returned(T, d, k, flip) ==
    load_from_memory(T, d, k, [NoMem EXCEPT !.flip = flip], Indeterminate).pixels

\* out is base, a height-row buffer of the given stride, with row y at row
\* height - 1 - y.
IsRowReversal(out, base, height, stride) ==
    /\ Len(out) = height * stride
    /\ Len(base) = height * stride
    /\ \A y \in 0..(height - 1), j \in 1..stride :
          out[(height - 1 - y) * stride + j] = base[y * stride + j]

\* C1: the failure reason read right after a failing info, decode or
\* decode_into is the generic message when that attempt's bytes were QOI, and
\* stb_image's text for those bytes when they were not.
C1_ReasonOfLastAttempt ==
    [][ (call'.op = "failure_reason" /\ call.op \in Attempts /\ ~call.ok)
        => call'.text = IF is_qoi(call.d) THEN GenericReason ELSE StbiReason(call.d)
      ]_vars

\* C2: a decode into the caller's buffer leaves no block it allocated live.
C2_TemporaryReleased ==
    [][ call'.op = "decode_into" => heap' \subseteq heap ]_vars

\* C3: a successful LoadFromMemory / LoadFFromMemory leaves exactly one new
\* block live, the one it returns; a failing one leaves none.
C3_OneBlockOutlives ==
    [][ call'.op = "decode"
        => IF call'.ok
           THEN call'.ptr \notin heap /\ heap' = heap \cup {call'.ptr}
           ELSE call'.ptr = NULL /\ heap' = heap
      ]_vars
C3_Witness ==
    /\ call.op = "decode" /\ call.ok /\ call.T = "f32"
    /\ g_should_flip_vertically /\ is_qoi(call.d)
    /\ heap = {call.ptr}

\* C4: when the underlying decode yields no pixels, a decode into the
\* caller's buffer returns false and the buffer is as it was.
C4_FailureLeavesDst ==
    (call.op = "decode_into" /\ Returned(call.T, call.d, call.k, FALSE) = <<>>)
    => ~call.ok /\ call.dst = DstBefore(call.T)
C4_Witness ==
    /\ call.op = "decode_into" /\ ~call.ok /\ call.T = "f32"
    /\ is_qoi(call.d) /\ call.d.dec = FALSE /\ g_should_flip_vertically

\* C6: for bytes classified as QOI, info fails exactly when the buffer is
\* shorter than header plus padding, the magic is wrong, a dimension is 0, the
\* channel count is not 3 or 4, the colorspace is above 1 or height >=
\* QOI_PIXELS_MAX / width, and then a decode fails too and allocates nothing;
\* otherwise info reports the header's width, height and channels.
QoiRejected(d) ==
    \/ ~AtLeast(d.len, QOI_HEADER_SIZE + QOI_PADDING_SIZE)
    \/ ~d.magic
    \/ d.width = 0 \/ d.height = 0
    \/ d.channels \notin {3, 4}
    \/ d.colorspace > 1
    \/ d.height >= QOI_PIXELS_MAX \div d.width
C6_HeaderRejection ==
    (call.op \in Attempts /\ is_qoi(call.d))
    => /\ call.op = "info"
          => /\ call.ok <=> ~QoiRejected(call.d)
             /\ call.ok => /\ call.w = call.d.width
                           /\ call.h = call.d.height
                           /\ call.n = call.d.channels
       /\ (call.op \in Decodes /\ QoiRejected(call.d)) => ~call.ok /\ heap = {}

\* C7: with one caller at a time the flag is what the last
\* SetFlipVerticallyOnLoad made it (false before the first), whatever was
\* called since, and a successful decode delivers the flipped image exactly
\* when that value is true.
C7_FlagKeptAndApplied ==
    /\ g_should_flip_vertically = lastSet.b
    /\ (call.op \in Decodes /\ call.ok)
       => LET base == Returned(call.T, call.d, call.k, FALSE)
              stride == call.d.width * Effective(call.d.channels, call.k)
          IN  IF lastSet.b
              THEN IsRowReversal(Delivered(call), base, call.d.height, stride)
              ELSE Delivered(call) = base
C7_Witness ==
    /\ call.op = "decode_into" /\ call.ok
    /\ lastSet.b /\ g_should_flip_vertically
    /\ call.d.height >= 2

\* C8: with a second thread setting the flag, the flag can differ from the
\* value last set once the decoding thread is back out of
\* load_from_memory_info_buffer (the witness), and it does so only when that
\* setter ran while the decode was between its lines 211 and 229.
C8_OverwrittenOnlyByRace ==
    (pc = "idle" /\ g_should_flip_vertically # lastSet.b) => lastSet.during
C8_Witness ==
    /\ pc = "idle" /\ call.op = "decode_into"
    /\ lastSet.during
    /\ g_should_flip_vertically # lastSet.b

\* C9: with the flag on, every successful decode delivers the flag-off result
\* with row y at row height - 1 - y, the stride being width * effective
\* channels; with the flag off it delivers the flag-off result; and a decode
\* into the caller's buffer writes the pixels LoadFromMemory / LoadFFromMemory
\* returns for the same bytes, channels and flag.
C9_FlippedOnce ==
    (call.op \in Decodes /\ call.ok)
    => LET base == Returned(call.T, call.d, call.k, FALSE)
           stride == call.d.width * Effective(call.d.channels, call.k)
       IN  /\ IF lastSet.b
              THEN IsRowReversal(Delivered(call), base, call.d.height, stride)
              ELSE Delivered(call) = base
           /\ call.op = "decode_into"
              => Delivered(call) = Returned(call.T, call.d, call.k, lastSet.b)
C9_Witness ==
    /\ call.op = "decode_into" /\ call.ok /\ call.T = "f32"
    /\ lastSet.b /\ ~call.d.hdr
    /\ call.d.height >= 2 /\ call.d.width >= 2
    /\ call.k = 2 /\ call.d.channels = 3
    /\ Delivered(call) # Returned(call.T, call.d, call.k, FALSE)

\* C10: a float decode of a source that is not natively HDR derives each
\* sample from the 8-bit sample at the same index: raw/255 on every channel
\* of a QOI image tagged linear; else raw/255 on the last channel of 2 or 4
\* and the sRGB transfer on the others, its linear branch when raw/255 <=
\* 0.04045.  A natively HDR source is not promoted.
Transfer(raw, c, n, linear) ==
    IF linear \/ (n \in {2, 4} /\ c = n - 1)
    THEN [f |-> "raw/255", raw |-> raw]
    ELSE IF raw * 100000 <= 4045 * 255
         THEN [f |-> "srgb/12.92", raw |-> raw]
         ELSE [f |-> "pow((srgb+0.055)/1.055,2.4)", raw |-> raw]
C10_Promotion ==
    (call.op \in Decodes /\ call.ok /\ call.T = "f32")
    => LET out == Delivered(call)
           n == Effective(call.d.channels, call.k)
       IN  IF ~is_qoi(call.d) /\ call.d.hdr
           THEN \A i \in DOMAIN out : out[i].f = "hdr"
           ELSE LET ldr == Returned("u8", call.d, call.k, lastSet.b)
                    linear == is_qoi(call.d) /\ call.d.colorspace = QOI_LINEAR
                IN  /\ Len(out) = Len(ldr)
                    /\ \A i \in DOMAIN out :
                          out[i] = Transfer(ldr[i], (i - 1) % n, n, linear)
C10_Witness ==
    /\ call.op = "decode" /\ call.ok /\ call.T = "f32"
    /\ is_qoi(call.d) /\ call.d.colorspace = 0 /\ call.k = 4
    /\ \E i, j \in DOMAIN call.pixels :
          /\ call.pixels[i].f = "srgb/12.92"
          /\ call.pixels[j].f = "pow((srgb+0.055)/1.055,2.4)"
    /\ call.pixels[4].f = "raw/255"

====
